---- MODULE Spec2Model ----
(***************************************************************************)
(* Storage-backend contract of sunbeam: the Dell PowerStore backend and    *)
(* its configuration schema (backends/dellpowerstore/backend.py), the      *)
(* backends' identities expected by the unit tests, the schema-validation  *)
(* engine and the backend registry described by the specification.         *)
(***************************************************************************)
EXTENDS Integers, Sequences, FiniteSets, TLC

VARIABLES
    registry,   \* the registered backends (ids), in registration order
    backends,   \* id -> [backend_type, charm_name] of every backend object
    powerstore, \* the full static descriptor of the Dell PowerStore backend
    schema,     \* the Dell PowerStore config schema (field name -> FieldInfo)
    call        \* the last operation performed, its arguments and its result

vars == <<registry, backends, powerstore, schema, call>>

----------------------------------------------------------------------------
(* Values of the raw configuration mapping and of a validated config.      *)

Str(s) == [t |-> "str", v |-> s]
Bool(s) == [t |-> "bool", v |-> s]
None == [t |-> "none", v |-> ""]

----------------------------------------------------------------------------
(* backend.py: class DellPwerstoreConfig(StorageBackendConfig).            *)

\* A secret marker; it records the external (wire) key of the field.
SecretDictField(field) == field

\* Whether the brackets of a statement match: every closer closes the last
\* opener still open, and none is left open.
RECURSIVE Matches(_, _)
Matches(tokens, open) ==
    IF tokens = << >> THEN open = << >>
    ELSE LET t == Head(tokens) IN
         IF t \in {"[", "("}
         THEN Matches(Tail(tokens), <<t>> \o open)
         ELSE /\ open # << >>
              /\ Head(open) = (IF t = "]" THEN "[" ELSE "(")
              /\ Matches(Tail(tokens), Tail(open))

Balanced(tokens) == Matches(tokens, << >>)

\* What a statement that does not compile declares: nothing.
SyntaxErrorDecl ==
    [annotation |-> "SyntaxError", required |-> FALSE, allowed |-> {},
     metadata |-> {}]

\* An annotated field statement: the field it declares when its brackets
\* match, a SyntaxError otherwise.
Declare(brackets, info) ==
    IF Balanced(brackets) THEN info ELSE SyntaxErrorDecl

\* A field annotated str without default: required.
SanField(key) ==
    [annotation |-> "str", required |-> TRUE, allowed |-> {},
     metadata |-> {SecretDictField(key)}]

\* Annotated[str, Field(...), SecretDictField(...), ]
SanBrackets == <<"[", "(", ")", "(", ")", "]">>

\* Annotated[str, Field(...), SecretDictField(field="san-ip"), ]] : the
\* statement ends with two closing brackets.
san_ip == Declare(<<"[", "(", ")", "(", ")", "]", "]">>, SanField("san-ip"))

san_username == Declare(SanBrackets, SanField("san-username"))

san_password == Declare(SanBrackets, SanField("san-password"))

\* Annotated[Literal["fc", "iscsi"], Field(...)] without default: required.
protocol ==
    Declare(<<"[", "[", "]", "(", ")", "]">>,
            [annotation |-> "literal", required |-> TRUE,
             allowed |-> {"fc", "iscsi"}, metadata |-> {}])

\* Annotated[str | None, Field(...)] = None
OptionalStr ==
    Declare(<<"[", "(", ")", "]">>,
            [annotation |-> "str_or_none", required |-> FALSE, allowed |-> {},
             metadata |-> {}])

volume_backend_name == OptionalStr

backend_availability_zone == OptionalStr

driver_ssl_cert == OptionalStr

powerstore_nvme == OptionalStr

powerstore_ports == OptionalStr

replication_device == OptionalStr

\* The names of the field statements in the class body, as written.
DeclaredNames ==
    {"san_ip", "san_username", "san_password", "protocol",
     "volume_backend_name", "backend_availability_zone", "driver_ssl_cert",
     "powerstore_nvme", "powerstore_ports", "replication_device"}

Declaration(f) ==
    CASE f = "san_ip" -> san_ip
      [] f = "san_username" -> san_username
      [] f = "san_password" -> san_password
      [] f = "protocol" -> protocol
      [] f = "volume_backend_name" -> volume_backend_name
      [] f = "backend_availability_zone" -> backend_availability_zone
      [] f = "driver_ssl_cert" -> driver_ssl_cert
      [] f = "powerstore_nvme" -> powerstore_nvme
      [] f = "powerstore_ports" -> powerstore_ports
      [] f = "replication_device" -> replication_device

\* backend.py compiles only if every statement of it does; a module that does
\* not compile runs no statement at all.
ModuleCompiles ==
    \A f \in DeclaredNames : Declaration(f).annotation # "SyntaxError"

\* The fields of the class: none when the class is never created.
FieldNames == IF ModuleCompiles THEN DeclaredNames ELSE {}

DellPwerstoreConfig == [f \in FieldNames |-> Declaration(f)]

\* The names the module backend.py binds at top level: none when it does not
\* compile.
ModuleGlobals ==
    IF ModuleCompiles
    THEN {"logging", "Annotated", "Literal", "Field", "Console",
          "StorageBackendConfig", "StorageBackendBase", "SecretDictField",
          "LOG", "console", "DellPwerstoreConfig", "DellPowertoreBackend"}
    ELSE {}

----------------------------------------------------------------------------
(* backend.py: class DellPowertoreBackend(StorageBackendBase).             *)

backend_type == "dellpowerstore"

display_name ==
    <<"D", "e", "l", "l", " ", "P", "o", "w", "e", "r", "S", "t", "o", "r", "e">>

charm_name == "cinder-volume-dellpowerstore"

charm_channel == "2025.1/edge"

charm_revision == None

charm_base == "ubuntu@24.04"

\* config_type() returns the global name DellPowerstoreConfig.
ConfigTypeName == "DellPowerstoreConfig"

config_type ==
    IF ConfigTypeName \in ModuleGlobals
    THEN [status |-> "class", name |-> ConfigTypeName]
    ELSE [status |-> "NameError", name |-> ConfigTypeName]

\* The descriptor read from a backend class that was never created.
NoDescriptor ==
    [backend_type |-> "", display_name |-> << >>, charm_name |-> "",
     charm_channel |-> "", charm_revision |-> None, charm_base |-> ""]

DellPowertoreBackend ==
    IF ModuleCompiles
    THEN [backend_type |-> backend_type, display_name |-> display_name,
          charm_name |-> charm_name, charm_channel |-> charm_channel,
          charm_revision |-> charm_revision, charm_base |-> charm_base]
    ELSE NoDescriptor

----------------------------------------------------------------------------
(* The backend objects the callers construct (tests/.../conftest.py) and   *)
(* the identities the tests expect of them (tests/.../test_common.py).     *)

Shipped == {"hitachi", "purestorage", "dellsc", "dellpowerstore"}

ExpectedType(id) == id

ExpectedCharm(id) == "cinder-volume-" \o id

\* from sunbeam.storage.backends.dellpowerstore.backend import <name>
ImportFrom(name) ==
    IF ~ModuleCompiles THEN "SyntaxError"
    ELSE IF name \in ModuleGlobals THEN "ok" ELSE "ImportError"

\* The class name conftest.py imports, and the one backend.py defines.
ImportNames == {"DellpowerstoreBackend", "DellPowertoreBackend"}

\* The shipped backends the callers can construct: conftest.py imports the
\* four backend classes and then defines the fixtures, as one module run top
\* to bottom; when the import of the Dell PowerStore class fails, no fixture
\* is defined and no backend is constructed.
Constructible ==
    IF ImportFrom("DellpowerstoreBackend") = "ok" THEN Shipped ELSE {}

\* The backends of the registry's scenarios: one of each variant the contract
\* names, with the type and deployable unit expected of that variant, and two
\* that collide with the Dell PowerStore one, by type only and by deployable
\* unit only.
Variants ==
    {"hitachi-double", "purestorage-double", "dellsc-double",
     "dellpowerstore-double"}

Colliding == {"dellpowerstore-clone", "powerstore-alias"}

BackendIds == Constructible \cup Variants \cup Colliding

\* The shipped backend a scenario backend stands for.
VariantOf(id) ==
    CASE id = "hitachi-double" -> "hitachi"
      [] id = "purestorage-double" -> "purestorage"
      [] id = "dellsc-double" -> "dellsc"
      [] id = "dellpowerstore-double" -> "dellpowerstore"

BackendOf(id) ==
    CASE id = "dellpowerstore" ->
            [backend_type |-> DellPowertoreBackend.backend_type,
             charm_name |-> DellPowertoreBackend.charm_name]
      [] id \in Variants ->
            [backend_type |-> ExpectedType(VariantOf(id)),
             charm_name |-> ExpectedCharm(VariantOf(id))]
      [] id = "dellpowerstore-clone" ->
            [backend_type |-> "dellpowerstore",
             charm_name |-> "cinder-volume-dellpowerstore-clone"]
      [] id = "powerstore-alias" ->
            [backend_type |-> "powerstore",
             charm_name |-> "cinder-volume-dellpowerstore"]
      [] OTHER ->
            [backend_type |-> ExpectedType(id),
             charm_name |-> ExpectedCharm(id)]

----------------------------------------------------------------------------
(* Field classification and schema introspection.                          *)

\* any(isinstance(m, SecretDictField) for m in field.metadata)
IsSecretField(info) == info.metadata # {}

\* The wire key of a field: the key its secret marker records, else its name.
ExternalKey(sch, f) ==
    IF sch[f].metadata # {} THEN CHOOSE k \in sch[f].metadata : TRUE ELSE f

NoConfig == [f \in {} |-> None]

NoRaw == [k \in {} |-> None]

Ret(status) ==
    [status |-> status, config |-> NoConfig, errors |-> {}, metadata |-> {},
     found |-> << >>]

\* The result of an operation on the schema or the backend of backend.py: the
\* callers import the module first, and a module that does not compile raises
\* SyntaxError before the operation runs.
Loaded(ret) == IF ModuleCompiles THEN ret ELSE Ret("SyntaxError")

\* config_class.model_fields.get(key): the field map is keyed by field name.
ModelFieldsGet(sch, key) ==
    IF key \in DOMAIN sch
    THEN [Ret("found") EXCEPT !.metadata = sch[key].metadata]
    ELSE Ret("None")

LookupKeys == DeclaredNames \cup {"san-ip", "san-username", "san-password"}

----------------------------------------------------------------------------
(* Schema validation: config_class.model_validate(raw).                    *)

ErrorItem(loc, type) == [loc |-> loc, type |-> type]

\* Whether a supplied value is acceptable for the field's annotation.
Accepts(info, val) ==
    CASE info.annotation = "str" -> val.t = "str"
      [] info.annotation = "str_or_none" -> val.t \in {"str", "none"}
      [] info.annotation = "literal" -> val.t = "str" /\ val.v \in info.allowed

InvalidType(info) ==
    IF info.annotation = "literal" THEN "literal_error" ELSE "string_type"

FieldErrors(sch, raw, f) ==
    LET key == ExternalKey(sch, f) IN
    IF key \notin DOMAIN raw
    THEN IF sch[f].required THEN {ErrorItem(key, "missing")} ELSE {}
    ELSE IF Accepts(sch[f], raw[key]) THEN {}
         ELSE {ErrorItem(key, InvalidType(sch[f]))}

FieldValue(sch, raw, f) ==
    LET key == ExternalKey(sch, f) IN
    IF key \in DOMAIN raw THEN raw[key] ELSE None

Validate(sch, raw) ==
    LET errors == UNION {FieldErrors(sch, raw, f) : f \in DOMAIN sch} IN
    IF errors = {}
    THEN [Ret("ok") EXCEPT
            !.config = [f \in DOMAIN sch |-> FieldValue(sch, raw, f)]]
    ELSE [Ret("ValidationError") EXCEPT !.errors = errors]

\* The raw inputs tried: every combination of absent/supplied keys.
SanKeys == {"san-ip", "san-username", "san-password"}

RawKeys == SanKeys \cup {"protocol", "powerstore_nvme"}

RawValues(k) ==
    CASE k = "san-ip" -> {Str("192.168.1.1")}
      [] k = "san-username" -> {Str("admin")}
      [] k = "san-password" -> {Str("secret")}
      [] k = "protocol" -> {Str("fc"), Str("iscsi"), Str("INVALID"), Str("FC")}
      [] k = "powerstore_nvme" -> {Bool("True"), Str("true")}

AllRawValues == UNION {RawValues(k) : k \in RawKeys}

RawInputs ==
    UNION {{r \in [K -> AllRawValues] : \A k \in K : r[k] \in RawValues(k)} :
           K \in SUBSET RawKeys}

----------------------------------------------------------------------------
(* The backend registry.                                                   *)

TypeCollides(reg, b) ==
    \E i \in 1..Len(reg) : backends[reg[i]].backend_type = backends[b].backend_type

UnitCollides(reg, b) ==
    \E i \in 1..Len(reg) : backends[reg[i]].charm_name = backends[b].charm_name

MutRegisterResultNoUnitCheck(reg, b) ==
    IF TypeCollides(reg, b) THEN "DuplicateBackendType" ELSE "ok"

RegisterResult(reg, b) ==
    CASE TypeCollides(reg, b) -> "DuplicateBackendType"
      [] UnitCollides(reg, b) -> "DuplicateDeployableUnit"
      [] OTHER -> "ok"

\* get(backendType): the registered backend of that type, or NotFound.
MutGetIgnoresLast(reg, t) ==
    LET hits == {i \in 1..(Len(reg) - 1) : backends[reg[i]].backend_type = t} IN
    IF hits = {} THEN Ret("NotFound")
    ELSE [Ret("ok") EXCEPT !.found = <<reg[CHOOSE i \in hits : \A j \in hits : i <= j]>>]

Get(reg, t) ==
    LET hits == {i \in 1..Len(reg) : backends[reg[i]].backend_type = t} IN
    IF hits = {} THEN Ret("NotFound")
    ELSE [Ret("ok") EXCEPT !.found = <<reg[CHOOSE i \in hits : \A j \in hits : i <= j]>>]

\* all(): the registered backends, in registration order.
All(reg) == [Ret("ok") EXCEPT !.found = reg]

\* The types asked of get: those of the backend objects and one no backend has.
GetTypes == {BackendOf(id).backend_type : id \in BackendIds} \cup {"ceph"}

----------------------------------------------------------------------------
(* State machine.                                                          *)

Call(op, backend, raw, key, ret) ==
    [op |-> op, backend |-> backend, raw |-> raw, key |-> key, ret |-> ret]

Init ==
    /\ registry = << >>
    /\ backends = [id \in BackendIds |-> BackendOf(id)]
    /\ powerstore = DellPowertoreBackend
    /\ schema = DellPwerstoreConfig
    /\ call = Call("none", "", NoRaw, "", Ret("none"))

Register(b) ==
    LET res == RegisterResult(registry, b) IN
    /\ registry' = IF res = "ok" THEN Append(registry, b) ELSE registry
    /\ call' = Call("register", b, NoRaw, "", Ret(res))
    /\ UNCHANGED <<backends, powerstore, schema>>

ValidateCall(raw) ==
    /\ call' = Call("validate", "", raw, "", Loaded(Validate(schema, raw)))
    /\ UNCHANGED <<registry, backends, powerstore, schema>>

ModelFieldsGetCall(key) ==
    /\ call' = Call("model_fields.get", "", NoRaw, key,
                    Loaded(ModelFieldsGet(schema, key)))
    /\ UNCHANGED <<registry, backends, powerstore, schema>>

ConfigTypeCall ==
    /\ call' = Call("config_type", "dellpowerstore", NoRaw, "",
                    Loaded(Ret(config_type.status)))
    /\ UNCHANGED <<registry, backends, powerstore, schema>>

ImportBackend(name) ==
    /\ call' = Call("import", "", NoRaw, name, Ret(ImportFrom(name)))
    /\ UNCHANGED <<registry, backends, powerstore, schema>>

GetCall(t) ==
    /\ call' = Call("get", "", NoRaw, t, Get(registry, t))
    /\ UNCHANGED <<registry, backends, powerstore, schema>>

AllCall ==
    /\ call' = Call("all", "", NoRaw, "", All(registry))
    /\ UNCHANGED <<registry, backends, powerstore, schema>>

Next ==
    \/ \E b \in BackendIds : Register(b)
    \/ \E t \in GetTypes : GetCall(t)
    \/ AllCall
    \/ \E raw \in RawInputs : ValidateCall(raw)
    \/ \E key \in LookupKeys : ModelFieldsGetCall(key)
    \/ ConfigTypeCall
    \/ \E name \in ImportNames : ImportBackend(name)

Spec == Init /\ [][Next]_vars

\* Registration only (process start-up).
NextRegistry ==
    \/ \E b \in BackendIds : Register(b)
    \/ \E t \in GetTypes : GetCall(t)
    \/ AllCall

SpecRegistry == Init /\ [][NextRegistry]_vars

\* Schema use only: validation and introspection by the callers.
NextSchema ==
    \/ \E raw \in RawInputs : ValidateCall(raw)
    \/ \E key \in LookupKeys : ModelFieldsGetCall(key)
    \/ ConfigTypeCall
    \/ \E name \in ImportNames : ImportBackend(name)

SpecSchema == Init /\ [][NextSchema]_vars

----------------------------------------------------------------------------
(* Helpers of the properties.                                              *)

Upper == <<"A", "B", "C", "D", "E", "F", "G", "H", "I", "J", "K", "L", "M",
           "N", "O", "P", "Q", "R", "S", "T", "U", "V", "W", "X", "Y", "Z">>

LowerLetters == <<"a", "b", "c", "d", "e", "f", "g", "h", "i", "j", "k", "l", "m",
                  "n", "o", "p", "q", "r", "s", "t", "u", "v", "w", "x", "y", "z">>

\* str.lower(), character by character
LowerChar(c) ==
    IF \E i \in 1..Len(Upper) : Upper[i] = c
    THEN LowerLetters[CHOOSE i \in 1..Len(Upper) : Upper[i] = c]
    ELSE c

Lower(s) == [i \in 1..Len(s) |-> LowerChar(s[i])]

\* sub in s
Contains(s, sub) ==
    \E i \in 0..(Len(s) - Len(sub)) :
        \A j \in 1..Len(sub) : s[i + j] = sub[j]

RegisteredIds == {registry[i] : i \in 1..Len(registry)}

IsValidate == call.op = "validate"

SanPresent == SanKeys \subseteq DOMAIN call.raw

MissingSan == SanKeys \ DOMAIN call.raw

OptionalFields ==
    {"protocol", "powerstore_nvme", "powerstore_ports", "replication_device",
     "volume_backend_name", "backend_availability_zone"}

----------------------------------------------------------------------------
(* Registry properties.                                                    *)

\* C1: after any sequence of register calls, no two registered backends share
\* a backend type and no two share a charm name; the four shipped backends
\* exist and have pairwise distinct types and pairwise distinct charm names.
C1_RegistryUnique ==
    /\ \A i, j \in 1..Len(registry) :
          i # j =>
            /\ backends[registry[i]].backend_type # backends[registry[j]].backend_type
            /\ backends[registry[i]].charm_name # backends[registry[j]].charm_name
    /\ Shipped \subseteq DOMAIN backends
    /\ \A a, b \in Shipped :
          a # b =>
            /\ backends[a].backend_type # backends[b].backend_type
            /\ backends[a].charm_name # backends[b].charm_name

\* C2: register(b) fails with DuplicateBackendType when b's type is already
\* registered and with DuplicateDeployableUnit when b's charm name is already
\* registered (the type is checked first); a failed register leaves the
\* registered backends and their order unchanged, a successful one appends b.
C2_RegisterStep ==
    call'.op = "register" =>
        LET b == call'.backend
            st == call'.ret.status
        IN  /\ TypeCollides(registry, b) => st = "DuplicateBackendType"
            /\ (UnitCollides(registry, b) /\ ~TypeCollides(registry, b))
                  => st = "DuplicateDeployableUnit"
            /\ (~UnitCollides(registry, b) /\ ~TypeCollides(registry, b))
                  => st = "ok"
            /\ st # "ok" => registry' = registry
            /\ st = "ok" => registry' = Append(registry, b)

C2_RegisterFails == [][C2_RegisterStep]_vars

\* A second backend of type "dellpowerstore" was refused and the first one is
\* still the registered backend of that type.
C2_Witness ==
    /\ call.op = "register"
    /\ call.backend = "dellpowerstore-clone"
    /\ call.ret.status = "DuplicateBackendType"
    /\ "dellpowerstore-double" \in RegisteredIds
    /\ "dellpowerstore-clone" \notin RegisteredIds

----------------------------------------------------------------------------
(* Schema properties.                                                      *)

\* C3: validating a raw input that holds only san-ip, san-username and
\* san-password succeeds, and every optional field of the result (protocol
\* included) is None.
C3_OnlySanSucceeds ==
    (IsValidate /\ DOMAIN call.raw = SanKeys) =>
        /\ call.ret.status = "ok"
        /\ DOMAIN call.ret.config = DeclaredNames
        /\ \A f \in OptionalFields : call.ret.config[f] = None

\* C4: when some of san-ip, san-username, san-password are absent from the raw
\* input, validate returns no config but one error that names every one of
\* the absent fields as missing.
C4_MissingSanAggregated ==
    (IsValidate /\ MissingSan # {}) =>
        /\ call.ret.status = "ValidationError"
        /\ call.ret.config = NoConfig
        /\ \A k \in MissingSan : ErrorItem(k, "missing") \in call.ret.errors

ProtocolErrors == {e \in call.ret.errors : e.loc = "protocol"}

\* C5: with the SAN fields present, a supplied protocol is accepted exactly
\* when it is "fc" or "iscsi": an accepted value is the protocol of the
\* resulting config (and a raw input of the SAN fields and such a protocol
\* validates), any other value yields an error naming the field protocol.
C5_ProtocolEnum ==
    (IsValidate /\ SanPresent /\ "protocol" \in DOMAIN call.raw) =>
        LET v == call.raw["protocol"] IN
        IF v.t = "str" /\ v.v \in {"fc", "iscsi"}
        THEN /\ ProtocolErrors = {}
             /\ call.ret.status = "ok" => call.ret.config["protocol"] = v
             /\ DOMAIN call.raw = SanKeys \cup {"protocol"} =>
                    call.ret.status = "ok"
        ELSE /\ call.ret.status = "ValidationError"
             /\ ProtocolErrors # {}

\* C6: with the SAN fields and a valid protocol present, powerstore_nvme = True
\* (a boolean) validates and the config holds the boolean True.
C6_BooleanNvme ==
    (/\ IsValidate
     /\ SanPresent
     /\ "protocol" \in DOMAIN call.raw
     /\ call.raw["protocol"] \in {Str("fc"), Str("iscsi")}
     /\ "powerstore_nvme" \in DOMAIN call.raw
     /\ call.raw["powerstore_nvme"] = Bool("True")) =>
        /\ call.ret.status = "ok"
        /\ call.ret.config["powerstore_nvme"] = Bool("True")

\* C7: the field map finds san_username and san_password under their field
\* names and the SAN IP under the key "san-ip", each with a secret marker
\* that records an external key; a field found without a marker is not secret.
C7_SanFieldsSecret ==
    call.op = "model_fields.get" =>
        /\ call.key \in {"san_username", "san_password", "san-ip"} =>
              /\ call.ret.status = "found"
              /\ IsSecretField(call.ret)
              /\ \A k \in call.ret.metadata : k # ""
        /\ call.key \in {"protocol", "powerstore_ports"} =>
              /\ call.ret.status = "found"
              /\ ~IsSecretField(call.ret)

\* C8: the Dell PowerStore backend is obtained under the class name the
\* callers import, and its config_type() returns a config class.
C8_ConfigTypeReturnsSchema ==
    /\ (call.op = "import" /\ call.key = "DellpowerstoreBackend") =>
          call.ret.status = "ok"
    /\ call.op = "config_type" => call.ret.status = "class"

----------------------------------------------------------------------------
(* Descriptor and purity properties.                                       *)

CharmPrefix == "cinder-volume-"

\* C9: every shipped backend exists with a well-formed descriptor (non-empty
\* type, charm name "cinder-volume-" followed by the type); for Dell
\* PowerStore also a non-empty display name containing "dell", non-empty
\* channel and base, type "dellpowerstore" and charm
\* "cinder-volume-dellpowerstore".
C9_DescriptorWellFormed ==
    /\ powerstore.backend_type # ""
    /\ Len(powerstore.display_name) > 0
    /\ powerstore.charm_channel # ""
    /\ powerstore.charm_base # ""
    /\ powerstore.charm_revision.t \in {"none", "str"}
    /\ powerstore.backend_type = "dellpowerstore"
    /\ powerstore.charm_name = "cinder-volume-dellpowerstore"
    /\ powerstore.charm_name = CharmPrefix \o powerstore.backend_type
    /\ Contains(Lower(powerstore.display_name), <<"d", "e", "l", "l">>)
    /\ \A id \in Shipped :
          /\ id \in DOMAIN backends
          /\ backends[id].backend_type # ""
          /\ backends[id].charm_name = CharmPrefix \o backends[id].backend_type

----------------------------------------------------------------------------
(* Registry lookups.                                                       *)

Registered(t) == {id \in RegisteredIds : backends[id].backend_type = t}

C11_Lookups ==
    /\ call.op = "all" =>
          /\ call.ret.status = "ok"
          /\ call.ret.found = registry
    /\ call.op = "get" =>
          IF Registered(call.key) = {}
          THEN call.ret.status = "NotFound" /\ call.ret.found = << >>
          ELSE /\ call.ret.status = "ok"
               /\ Len(call.ret.found) = 1
               /\ call.ret.found[1] \in Registered(call.key)

C11_Step ==
    /\ \A t \in GetTypes :
          Get(registry, t).status = "ok" => Get(registry', t) = Get(registry, t)
    /\ IF call'.op = "register" /\ call'.ret.status = "ok" /\ registry' # registry
       THEN All(registry').found = Append(All(registry).found, call'.backend)
       ELSE All(registry').found = All(registry).found

\* C11: all() returns exactly the backends whose registration succeeded, in
\* registration order (empty at start, extended at its end by each successful
\* register, changed by nothing else); get(t) returns the registered backend
\* of type t, or NotFound when none is registered; a backend that get returns
\* is returned by get in every later state.
C11_AllAndGet ==
    /\ All(registry).found = << >>
    /\ []C11_Lookups
    /\ [][C11_Step]_vars

\* A backend of type "dellpowerstore" was registered first, two more
\* registrations succeeded, and get("dellpowerstore") still returns it.
C11_Witness ==
    /\ call.op = "get"
    /\ call.key = "dellpowerstore"
    /\ Len(registry) >= 3
    /\ registry[1] = "dellpowerstore-double"
    /\ call.ret.found = <<"dellpowerstore-double">>

====
